---- MODULE Spec2Model ----
(***************************************************************************)
(* Interview analysis pipeline: transcript validation and normalisation    *)
(* (pipeline/utils.py), the two-stage pipeline with per-stage retry and    *)
(* the result cache (pipeline/pipeline.py), and the HTTP error boundary    *)
(* (main.py).                                                              *)
(*                                                                         *)
(* Python values are represented as follows.                               *)
(*   str         a TLA+ string; a character is a string of length 1        *)
(*   dict        a sequence of entries [k |-> str, v |-> value] with       *)
(*               distinct keys, in insertion order                         *)
(*   value       [kind |-> "str", s |-> str, d |-> <<>>] or                *)
(*               [kind |-> "dict", s |-> "", d |-> dict]                   *)
(*   Optional    <<>> for None, <<x>> for a value x                        *)
(*   a call      [tag |-> "return", ...] or [tag |-> "raise", cls |-> ...] *)
(***************************************************************************)
EXTENDS Integers, Sequences, FiniteSets, TLC

(***************************************************************************)
(* Bounds of the model.                                                    *)
(***************************************************************************)
\* Largest number of entries of a generated transcript mapping.
MaxEntries == 3
\* Largest max_retries a pipeline is constructed with (0 is included).
MaxRetriesBound == 2
\* Largest number of recommended resources of a generated report.
MaxResources == 2

(***************************************************************************)
(* Strings.                                                                *)
(***************************************************************************)
None == <<>>
Some(x) == <<x>>

CharAt(s, i) == SubSeq(s, i, i)

UpperAlpha == "ABCDEFGHIJKLMNOPQRSTUVWXYZ"
LowerAlpha == "abcdefghijklmnopqrstuvwxyz"
\* Characters in code-point order (only their relative order is used).
CodeOrder == " 0123456789ABCDEFGHIJKLMNOPQRSTUVWXYZ_abcdefghijklmnopqrstuvwxyz"

CharsOf(alphabet) == {CharAt(alphabet, i) : i \in 1..Len(alphabet)}
IndexIn(c, alphabet) == CHOOSE i \in 1..Len(alphabet) : CharAt(alphabet, i) = c

\* Tables, computed once.
OrdTable == [c \in CharsOf(CodeOrder) |-> IndexIn(c, CodeOrder)] @@ <<>>
LowerTable == [c \in CharsOf(UpperAlpha) |-> CharAt(LowerAlpha, IndexIn(c, UpperAlpha))] @@ <<>>

Ord(c) == IF c \in DOMAIN OrdTable THEN OrdTable[c] ELSE 0

\* str.lower()
LowerChar(c) == IF c \in DOMAIN LowerTable THEN LowerTable[c] ELSE c

RECURSIVE Lower(_)
Lower(s) == IF Len(s) = 0 THEN "" ELSE LowerChar(CharAt(s, 1)) \o Lower(SubSeq(s, 2, Len(s)))

\* `pat in s` for strings
Contains(pat, s) ==
    \E i \in 1..(Len(s) - Len(pat) + 1) : SubSeq(s, i, i + Len(pat) - 1) = pat

StartsWith(s, pre) == Len(pre) <= Len(s) /\ SubSeq(s, 1, Len(pre)) = pre

IsSpace(c) == c \in {" ", "\t", "\n"}

\* str.strip()
RECURSIVE Strip(_)
Strip(s) ==
    IF Len(s) = 0 THEN ""
    ELSE IF IsSpace(CharAt(s, 1)) THEN Strip(SubSeq(s, 2, Len(s)))
    ELSE IF IsSpace(CharAt(s, Len(s))) THEN Strip(SubSeq(s, 1, Len(s) - 1))
    ELSE s

\* a < b for str (lexicographic by code point)
RECURSIVE StrLess(_, _)
StrLess(a, b) ==
    IF Len(b) = 0 THEN FALSE
    ELSE IF Len(a) = 0 THEN TRUE
    ELSE IF CharAt(a, 1) = CharAt(b, 1)
         THEN StrLess(SubSeq(a, 2, Len(a)), SubSeq(b, 2, Len(b)))
         ELSE Ord(CharAt(a, 1)) < Ord(CharAt(b, 1))

\* sep.join(lines)
RECURSIVE Join(_, _)
Join(sep, lines) ==
    IF Len(lines) = 0 THEN ""
    ELSE IF Len(lines) = 1 THEN lines[1]
    ELSE lines[1] \o sep \o Join(sep, Tail(lines))

(***************************************************************************)
(* Values and dicts.                                                       *)
(***************************************************************************)
StrVal(s) == [kind |-> "str", s |-> s, d |-> <<>>]
DictVal(d) == [kind |-> "dict", s |-> "", d |-> d]
Entry(k, v) == [k |-> k, v |-> v]

\* `k in d`
HasKey(d, k) == \E i \in 1..Len(d) : d[i].k = k
\* d[k]
Get(d, k) == d[CHOOSE i \in 1..Len(d) : d[i].k = k].v
\* list(d.keys())
Keys(d) == [i \in 1..Len(d) |-> d[i].k]

\* len(v)
PyLen(v) == IF v.kind = "str" THEN Len(v.s) ELSE Len(v.d)
\* `not v`
Falsy(v) == PyLen(v) = 0

Raise(cls) == [tag |-> "raise", cls |-> cls]

(***************************************************************************)
(* pipeline/utils.py                                                       *)
(***************************************************************************)
\* `if "transcript" in transcript_obj: transcript_obj = transcript_obj["transcript"]`
Unwrap(transcript_obj) ==
    IF HasKey(transcript_obj, "transcript")
    THEN Get(transcript_obj, "transcript")
    ELSE DictVal(transcript_obj)

\* `'interviewer' in k.lower()` and `'candidate' in k.lower()`; the tables
\* hold the answers for the keys the generated inputs use, computed once.
KnownKeys ==
    {"interviewer", "candidate", "Interviewer_1", "CANDIDATE_1", "notes",
     "interviewer_1", "candidate_1", "metadata", "transcript"}
InterviewerTable == [k \in KnownKeys |-> Contains("interviewer", Lower(k))] @@ <<>>
CandidateTable == [k \in KnownKeys |-> Contains("candidate", Lower(k))] @@ <<>>
IsInterviewerKey(k) ==
    IF k \in KnownKeys THEN InterviewerTable[k] ELSE Contains("interviewer", Lower(k))
IsCandidateKey(k) ==
    IF k \in KnownKeys THEN CandidateTable[k] ELSE Contains("candidate", Lower(k))

\* sort_key(k) of format_transcript: the pair (rank, k)
sort_key_CandidateFirst(k) ==
    IF IsCandidateKey(k) THEN <<0, k>>
    ELSE IF IsInterviewerKey(k) THEN <<1, k>>
    ELSE <<2, k>>
sort_key(k) ==
    IF IsInterviewerKey(k) THEN <<0, k>>
    ELSE IF IsCandidateKey(k) THEN <<1, k>>
    ELSE <<2, k>>

\* a < b for the pairs sort_key returns
SortKeyLess(a, b) == a[1] < b[1] \/ (a[1] = b[1] /\ StrLess(a[2], b[2]))

RECURSIVE InsertSorted(_, _)
InsertSorted(k, done) ==
    IF Len(done) = 0 THEN <<k>>
    ELSE IF SortKeyLess(sort_key(k), sort_key(Head(done))) THEN <<k>> \o done
    ELSE <<Head(done)>> \o InsertSorted(k, Tail(done))

\* sorted(keys, key=sort_key): a stable sort
Sorted_Unsorted(keys) == keys
RECURSIVE Sorted(_)
Sorted(keys) ==
    IF Len(keys) = 0 THEN <<>>
    ELSE InsertSorted(keys[Len(keys)], Sorted(SubSeq(keys, 1, Len(keys) - 1)))

\* str(v) inside the f-string of format_transcript
Repr(v) == IF v.kind = "str" THEN v.s ELSE "{...}"

FormatLine(d, key) ==
    (IF IsInterviewerKey(key) THEN "Interviewer" ELSE "Candidate") \o ": " \o Repr(Get(d, key))

format_transcript(transcript_obj) ==
    LET t == Unwrap(transcript_obj) IN
    IF t.kind # "dict" THEN Raise("AttributeError")    \* str has no keys()
    ELSE LET sorted_keys == Sorted(Keys(t.d))
             lines == [i \in 1..Len(sorted_keys) |-> FormatLine(t.d, sorted_keys[i])]
         IN  [tag |-> "return", text |-> Join("\n\n", lines)]

MsgEmpty == "Transcript cannot be empty"
MsgTooShort == "Transcript must have at least 2 exchanges"
MsgNoInterviewer == "Transcript must include interviewer questions"
MsgNoCandidate == "Transcript must include candidate responses"
MsgEntryEmpty(key) == "Entry '" \o key \o "' is empty"

Invalid(reason) == [tag |-> "return", ok |-> FALSE, reason |-> Some(reason)]
Valid == [tag |-> "return", ok |-> TRUE, reason |-> None]

\* `not value or not value.strip()` returns for this entry
IsBlank_NoStrip(v) == Falsy(v)
IsBlank(v) == Falsy(v) \/ (v.kind = "str" /\ Strip(v.s) = "")
\* value.strip() on a non-empty value that is no str
StripFails(v) == ~Falsy(v) /\ v.kind # "str"

\* the loop `for key, value in transcript_obj.items()` of validate_transcript
RECURSIVE CheckEntries(_, _)
CheckEntries(d, i) ==
    IF i > Len(d) THEN Valid
    ELSE IF StripFails(d[i].v) THEN Raise("AttributeError")
    ELSE IF IsBlank(d[i].v) THEN Invalid(MsgEntryEmpty(d[i].k))
    ELSE CheckEntries(d, i + 1)

\* `len(transcript_obj) < 2`
TooShort_FewerThanOne(t) == PyLen(t) < 1
TooShort(t) == PyLen(t) < 2

\* `any('interviewer' in k.lower() for k in transcript_obj.keys())`
has_interviewer(d) == \E i \in 1..Len(d) : IsInterviewerKey(d[i].k)
\* `any('candidate' in k.lower() for k in transcript_obj.keys())`
has_candidate_TestsInterviewer(d) == \E i \in 1..Len(d) : IsInterviewerKey(d[i].k)
has_candidate(d) == \E i \in 1..Len(d) : IsCandidateKey(d[i].k)

validate_transcript(transcript_obj) ==
    LET t == Unwrap(transcript_obj) IN
    IF Falsy(t) THEN Invalid(MsgEmpty)
    ELSE IF TooShort(t) THEN Invalid(MsgTooShort)
    ELSE IF t.kind # "dict" THEN Raise("AttributeError")    \* str has no keys()
    ELSE IF ~has_interviewer(t.d) THEN Invalid(MsgNoInterviewer)
    ELSE IF ~has_candidate(t.d) THEN Invalid(MsgNoCandidate)
    ELSE CheckEntries(t.d, 1)

\* One RecommendedResource of models.py (the fields the check reads).
Resource(topic, link) == [topic |-> topic, link |-> link]

\* A FinalReport of models.py, by the fields validate_report_quality reads;
\* list elements it only counts are opaque.
FinalReport(headline, impression, strengths, weaknesses, topics, roadmap, resources) ==
    [headline |-> headline, overall_impression |-> impression,
     strengths |-> strengths, weaknesses |-> weaknesses,
     priority_topics |-> topics, roadmap_2_weeks |-> roadmap,
     recommended_resources |-> resources]

\* `len(report.development_plan.roadmap_2_weeks) < 2`
RoadmapTooShort_Empty(roadmap) == Len(roadmap) = 0
RoadmapTooShort(roadmap) == Len(roadmap) < 2

\* `not resource.link or not resource.link.strip()`
LinkIsEmpty(link) == Len(link) = 0 \/ Strip(link) = ""
\* `resource.link.startswith('http://') or resource.link.startswith('https://')`
LinkHasScheme(link) == StartsWith(link, "http://") \/ StartsWith(link, "https://")

\* the loop `for resource in report.development_plan.recommended_resources`
RECURSIVE CheckResources(_, _, _)
CheckResources(resources, i, issues) ==
    IF i > Len(resources) THEN issues
    ELSE IF LinkIsEmpty(resources[i].link)
    THEN CheckResources(resources, i + 1,
            Append(issues, "Resource '" \o resources[i].topic \o "' has empty link"))
    ELSE IF ~LinkHasScheme(resources[i].link)
    THEN CheckResources(resources, i + 1,
            Append(issues, "Resource '" \o resources[i].topic \o "' has invalid link format"))
    ELSE CheckResources(resources, i + 1, issues)

\* issues.append(msg) under `if cond`
AppendIf(issues, cond, msg) == IF cond THEN Append(issues, msg) ELSE issues

validate_report_quality(report) ==
    LET i1 == AppendIf(<<>>, Len(report.headline) < 20, "Headline is too short/generic")
        i2 == AppendIf(i1, Len(report.overall_impression) < 50,
                       "Overall impression lacks detail")
        i3 == AppendIf(i2, Len(report.strengths) = 0, "No strengths identified")
        i4 == AppendIf(i3, Len(report.weaknesses) = 0, "No weaknesses identified")
        i5 == AppendIf(i4, Len(report.priority_topics) = 0, "No priority topics defined")
        i6 == AppendIf(i5, RoadmapTooShort(report.roadmap_2_weeks),
                       "2-week roadmap insufficiently detailed")
        i7 == AppendIf(i6, Len(report.recommended_resources) = 0,
                       "No learning resources provided")
        issues == CheckResources(report.recommended_resources, 1, i7)
    IN  [passed |-> Len(issues) = 0, issues |-> issues]

(***************************************************************************)
(* Inputs of the utils functions: every mapping of at most MaxEntries      *)
(* entries over GenKeys and GenTexts, flat and wrapped in a request        *)
(* record, and flat mappings that have a field named `transcript`.         *)
(***************************************************************************)
GenKeys == {"interviewer", "candidate", "Interviewer_1", "CANDIDATE_1", "notes"}
GenTexts == {"", " \n", "Hi"}
GenEntries == {Entry(k, StrVal(s)) : k \in GenKeys, s \in GenTexts}

DistinctKeys(d) == \A i, j \in 1..Len(d) : d[i].k = d[j].k => i = j

Mappings ==
    {d \in UNION {[1..n -> GenEntries] : n \in 0..MaxEntries} : DistinctKeys(d)}

Metadata == DictVal(<<Entry("candidate_id", StrVal("C-1"))>>)
\* request.dict() of main.py, and the nested shape utils.py accepts
Wrapped(d) == <<Entry("metadata", Metadata), Entry("transcript", DictVal(d))>>

\* flat Dict[str, str] values one of whose fields is named `transcript`
FlatWithTranscriptField ==
    {<<Entry("transcript", StrVal(s))>> \o d :
        s \in GenTexts \cup {"Q"}, d \in {m \in Mappings : Len(m) <= 1}}
    \cup {<<Entry("interviewer", StrVal("Hi")), Entry("candidate", StrVal("Hi")),
            Entry("transcript", StrVal("Hi"))>>}

\* the transcript of test_formatting_order
TestFormattingOrder ==
    <<Entry("candidate", StrVal("answer")), Entry("interviewer", StrVal("question")),
      Entry("candidate_1", StrVal("answer 2")), Entry("interviewer_1", StrVal("question 2"))>>

UtilInputs ==
    Mappings \cup {Wrapped(d) : d \in Mappings} \cup FlatWithTranscriptField
        \cup {TestFormattingOrder}

(***************************************************************************)
(* Inputs of validate_report_quality: reports whose texts and lists lie on *)
(* both sides of each threshold, with up to MaxResources resources.        *)
(***************************************************************************)
GenHeadlines == {"", "Solid backend coder", "Solid backend coder."}
GenImpressions ==
    {"", "Clear on design tradeoffs; weak on testing habits",
     "Clear on design tradeoffs; weak on testing habits."}
GenLinks == {"", "  ", "http://a.io", "https://a.io", "ftp://a.io", " http://a.io"}

\* lists of n opaque items
Items(n) == [i \in 1..n |-> "item"]

GenResources ==
    UNION {[1..n -> {Resource(t, l) : t \in {"SQL"}, l \in GenLinks}] : n \in 0..MaxResources}
        \cup {<<Resource("Go", "ftp://a.io"), Resource("SQL", "")>>}

QualityInputs ==
    {FinalReport(h, o, Items(s), Items(w), Items(p), Items(r), res) :
        h \in GenHeadlines, o \in GenImpressions, s \in 0..1, w \in 0..1,
        p \in 0..1, r \in 0..2, res \in GenResources}

(***************************************************************************)
(* Values of the pipeline.                                                 *)
(***************************************************************************)
\* What the generation backend returns for each stage (opaque values).
AnalysisReports == {"analysis-1", "analysis-2"}
FinalReports == {"report-1", "report-2"}
StageNames == {"Analyst", "Synthesis"}

\* The FinalReport each name stands for: "report-1" meets every quality
\* condition, "report-2" has a short headline, no weaknesses and a bad link.
ReportObject(name) ==
    IF name = "report-1"
    THEN FinalReport("Solid backend coder.",
                     "Clear on design tradeoffs; weak on testing habits.",
                     Items(1), Items(1), Items(1), Items(2),
                     <<Resource("SQL", "https://a.io")>>)
    ELSE FinalReport("Good", "Clear on design tradeoffs; weak on testing habits.",
                     Items(1), Items(0), Items(1), Items(2),
                     <<Resource("SQL", "ftp://a.io")>>)

\* validate_report_quality of each report the synthesis stage can return
Quality == [n \in FinalReports |-> validate_report_quality(ReportObject(n))] @@ <<>>
StageOutputs(stage_name) == IF stage_name = "Analyst" THEN AnalysisReports ELSE FinalReports

Exc(cls, msg) == [cls |-> cls, msg |-> msg]
NoExc == Exc("", "")

\* Exceptions chain.invoke raises: a transport error, and the parser's
\* OutputParserException, which the library derives from ValueError.
BackendErrors ==
    {Exc("ConnectionError", "backend unreachable"),
     Exc("OutputParserException", "Failed to parse output from completion")}

\* isinstance(e, ValueError), as `except ValueError` tests it
IsValueError(e) == e.cls \in {"ValueError", "OutputParserException"}

\* One chain.invoke(input_data): a parsed object, or an exception.
BackendOutcomes(stage_name) ==
    {[ok |-> TRUE, value |-> v, exc |-> NoExc] : v \in StageOutputs(stage_name)}
    \cup {[ok |-> FALSE, value |-> "", exc |-> e] : e \in BackendErrors}

\* Transcripts handed to the pipeline; a request holds the name of its
\* transcript, TranscriptObject the object of that name.
QA == <<Entry("interviewer", StrVal("Q?")), Entry("candidate", StrVal("A."))>>
TranscriptObject(name) ==
    CASE name = "qa" -> Wrapped(QA)
      [] name = "qa-reordered" -> Wrapped(<<QA[2], QA[1]>>)
      \* no candidate key: invalid, and it renders to the text of "qa"
      [] name = "qa-no-candidate" ->
            Wrapped(<<Entry("interviewer", StrVal("Q?")), Entry("notes", StrVal("A."))>>)
      [] name = "qa-no-candidate-reordered" ->
            Wrapped(<<Entry("notes", StrVal("A.")), Entry("interviewer", StrVal("Q?"))>>)
      [] name = "qb" ->
            Wrapped(<<Entry("interviewer", StrVal("Q?")), Entry("candidate", StrVal("B."))>>)

PipelineTranscripts ==
    {"qa", "qa-reordered", "qa-no-candidate", "qa-no-candidate-reordered", "qb"}
\* request.dict() always has the fields metadata and transcript
RequestBodies ==
    {t \in PipelineTranscripts :
        HasKey(TranscriptObject(t), "metadata") /\ HasKey(TranscriptObject(t), "transcript")}

\* validate_transcript and format_transcript of each pipeline transcript
Validation == [t \in PipelineTranscripts |-> validate_transcript(TranscriptObject(t))] @@ <<>>
Formatted == [t \in PipelineTranscripts |-> format_transcript(TranscriptObject(t))] @@ <<>>

\* The two mappings have the same fields with the same texts.
SameMapping(d1, d2) ==
    /\ Len(d1) = Len(d2)
    /\ {d1[i] : i \in 1..Len(d1)} = {d2[i] : i \in 1..Len(d2)}

\* Pairs of pipeline transcripts that are one mapping, possibly with its
\* fields in another order.
SameFields ==
    [t1 \in PipelineTranscripts, t2 \in PipelineTranscripts |->
        SameMapping(Unwrap(TranscriptObject(t1)).d, Unwrap(TranscriptObject(t2)).d)] @@ <<>>

\* hashlib.md5(transcript.encode()).hexdigest(): taken to be injective
_get_cache_key(transcript) == "md5:" \o transcript

Requests == {1}

VARIABLES
    enable_cache,   \* self.enable_cache
    max_retries,    \* self.max_retries
    cache,          \* self.cache: None, or Some(function from key to report)
    req,            \* per request: the analyze invocation it runs or last ran
    last_call,      \* the analyze call that completed last, and whether
                    \* clear_cache was called since
    arg,            \* utils: the argument under test
    vout,           \* utils: Some(validate_transcript(arg)) once called
    fout,           \* utils: Some(format_transcript(arg)) once called
    qarg,           \* utils: the FinalReport under test
    qout            \* utils: Some(validate_report_quality(report)) once called

vars == <<enable_cache, max_retries, cache, req, last_call, arg, vout, fout, qarg, qout>>
pipeline_vars == <<enable_cache, max_retries, cache, req, last_call>>
utils_vars == <<arg, vout, fout, qarg, qout>>

EmptyDict == [k \in {} |-> ""]

\* `self.cache = {} if enable_cache else None`
InitialCache(enabled) == IF enabled THEN Some(EmptyDict) ELSE None

Idle ==
    [pc |-> "idle", via |-> "none", transcript |-> "",
     validate_input |-> TRUE, validate_output |-> TRUE, use_cache |-> TRUE,
     formatted |-> None, stages |-> <<>>, attempt |-> 0,
     calls |-> [n \in StageNames |-> 0], fails |-> [n \in StageNames |-> 0],
     last |-> [n \in StageNames |-> None],
     analysis_report |-> None, result |-> None, error |-> None, hit |-> FALSE,
     status |-> None, before |-> None, cache_at_call |-> None, quality |-> None,
     input |-> [n \in StageNames |-> None],
     returned |-> [n \in StageNames |-> None]]

Active(rq) == rq.pc \in {"extracting", "synthesizing"}
Finished(rq) == rq.pc \in {"done", "failed"}

\* What a finished call leaves for the next one to be compared with.
Summary(rq) ==
    [transcript |-> rq.transcript, use_cache |-> rq.use_cache, result |-> rq.result,
     cleared |-> FALSE]

(***************************************************************************)
(* main.py: analyze_interview maps the outcome of pipeline.analyze.        *)
(***************************************************************************)
StatusOfReturn == 200
StatusOfValueError == 400
StatusOfException == 500

\* the try/except of analyze_interview
ResponseStatus(rq) ==
    IF rq.via # "http" THEN None
    ELSE IF rq.pc = "done" THEN Some(StatusOfReturn)
    ELSE IF IsValueError(rq.error[1]) THEN Some(StatusOfValueError)
    ELSE Some(StatusOfException)

(***************************************************************************)
(* pipeline/pipeline.py: InterviewAnalysisPipeline                         *)
(***************************************************************************)
Raised(rq, exc) ==
    LET r1 == [rq EXCEPT !.pc = "failed", !.error = Some(exc)]
    IN  [r1 EXCEPT !.status = ResponseStatus(r1)]

Returned(rq, report) ==
    LET r1 == [rq EXCEPT !.pc = "done", !.result = Some(report)]
    IN  [r1 EXCEPT !.status = ResponseStatus(r1)]

\* `if use_cache and self.enable_cache`
ShouldUseCache_IgnoresEnable(use_cache) == use_cache
ShouldUseCache_IgnoresArgument(use_cache) == enable_cache
ShouldUseCache(use_cache) == use_cache /\ enable_cache

\* One iteration of the loop of _invoke_with_retry, after chain.invoke.
_invoke_with_retry_OffByOne(attempt, outcome) ==
    IF attempt >= max_retries THEN "raise"
    ELSE IF outcome.ok THEN "return"
    ELSE "retry"
_invoke_with_retry_OneMore(attempt, outcome) ==
    IF outcome.ok THEN "return"
    ELSE IF attempt = max_retries + 1 THEN "raise"
    ELSE "retry"
_invoke_with_retry(attempt, outcome) ==
    IF outcome.ok THEN "return"
    ELSE IF attempt = max_retries THEN "raise"
    ELSE "retry"

\* analysis_report.model_dump_json(indent=2) of a named report
model_dump_json(analysis_report) == "{\"snippets\": " \o analysis_report \o "}"

\* input_data of the stage: {"transcript": formatted_transcript}, or
\* {"analysis_report": analysis_report.model_dump_json(indent=2)}
StageInput_AlwaysTranscript(rq, stage_name) ==
    [field |-> "transcript", text |-> rq.formatted[1]]
StageInput(rq, stage_name) ==
    IF stage_name = "Analyst"
    THEN [field |-> "transcript", text |-> rq.formatted[1]]
    ELSE [field |-> "analysis_report", text |-> model_dump_json(rq.analysis_report[1])]

\* self._invoke_with_retry(chain, input, stage_name) is entered.  With
\* range(1, max_retries + 1) empty the loop body never runs and the call
\* returns None (`returned` holds Some(None)); analyze then fails on
\* `analysis_report.snippets`.
StartStage(rq, stage_name) ==
    LET r1 == [rq EXCEPT !.stages = Append(@, stage_name), !.attempt = 0,
                         !.input[stage_name] = Some(StageInput(rq, stage_name))] IN
    IF max_retries < 1
    THEN Raised([r1 EXCEPT !.returned[stage_name] = Some(None)],
                Exc("AttributeError", "'NoneType' object has no attribute"))
    ELSE [r1 EXCEPT !.pc = IF stage_name = "Analyst" THEN "extracting" ELSE "synthesizing"]

\* `if validate_input: ... if not is_valid: raise ValueError(...)`, with v the
\* pair validate_transcript returned
Rejects_UnlessCached(rq, v) ==
    /\ rq.validate_input /\ ~v.ok
    /\ ~(/\ ShouldUseCache(rq.use_cache) /\ cache # None
          /\ Formatted[rq.transcript].tag = "return"
          /\ _get_cache_key(Formatted[rq.transcript].text) \in DOMAIN cache[1])
Rejects(rq, v) == rq.validate_input /\ ~v.ok

\* analyze, lines 160-176: validation, normalisation, cache lookup.
AnalyzeEntry(rq) ==
    LET v == Validation[rq.transcript] IN
    IF rq.validate_input /\ v.tag = "raise" THEN Raised(rq, Exc(v.cls, "no attribute"))
    ELSE IF Rejects(rq, v)
    THEN Raised(rq, Exc("ValueError", "Invalid transcript: " \o v.reason[1]))
    ELSE LET f == Formatted[rq.transcript] IN
         IF f.tag = "raise" THEN Raised(rq, Exc(f.cls, "no attribute"))
         ELSE LET r1 == [rq EXCEPT !.formatted = Some(f.text)]
                  cache_key == _get_cache_key(f.text)
              IN  IF ~ShouldUseCache(rq.use_cache) THEN StartStage(r1, "Analyst")
                  ELSE IF cache = None
                  THEN Raised(r1, Exc("TypeError", "argument of type 'NoneType' is not iterable"))
                  ELSE IF cache_key \in DOMAIN cache[1]
                  THEN Returned([r1 EXCEPT !.hit = TRUE], cache[1][cache_key])
                  ELSE StartStage(r1, "Analyst")

\* analyze, lines 198-201: `self.cache[cache_key] = final_report`
Store_Skipped(rq, final_report) == cache
Store_DropsOtherKeys(rq, final_report) ==
    IF ShouldUseCache(rq.use_cache) /\ cache # None
    THEN Some([k \in {_get_cache_key(rq.formatted[1])} |-> final_report])
    ELSE cache
Store_IgnoresUseCache(rq, final_report) ==
    IF enable_cache /\ cache # None
    THEN LET cache_key == _get_cache_key(rq.formatted[1]) IN
         Some([k \in DOMAIN cache[1] \cup {cache_key} |->
                  IF k = cache_key THEN final_report ELSE cache[1][k]])
    ELSE cache
Store_UnderRawTranscript(rq, final_report) ==
    IF ShouldUseCache(rq.use_cache) /\ cache # None
    THEN LET cache_key == _get_cache_key(rq.transcript) IN
         Some([k \in DOMAIN cache[1] \cup {cache_key} |->
                  IF k = cache_key THEN final_report ELSE cache[1][k]])
    ELSE cache
Store(rq, final_report) ==
    IF ShouldUseCache(rq.use_cache) /\ cache # None
    THEN LET cache_key == _get_cache_key(rq.formatted[1]) IN
         Some([k \in DOMAIN cache[1] \cup {cache_key} |->
                  IF k = cache_key THEN final_report ELSE cache[1][k]])
    ELSE cache

\* self.cache after an attempt of the synthesis stage left the request as rq
CacheAfter_StoresUnfinished(rq) ==
    IF rq.pc = "done" THEN Store(rq, rq.result[1])
    ELSE IF rq.pc = "failed" THEN Store(rq, rq.analysis_report[1])
    ELSE cache
CacheAfter(rq) == IF rq.pc = "done" THEN Store(rq, rq.result[1]) ELSE cache

\* analyze, lines 189-197 and 205: with validate_output the verdict of
\* validate_report_quality is logged (kept in `quality`), then analyze goes
\* on to the store and returns the report.
AfterSynthesis_RaisesOnIssues(rq, final_report) ==
    IF rq.validate_output /\ ~Quality[final_report].passed
    THEN Raised(rq, Exc("ValueError", "Report quality issues detected"))
    ELSE Returned(rq, final_report)
AfterSynthesis(rq, final_report) ==
    Returned([rq EXCEPT !.quality = IF rq.validate_output
                                    THEN Some(Quality[final_report]) ELSE None],
             final_report)

\* The stage returned `value`: analyze goes on to the next stage, or returns.
StageReturned(rq, stage_name, value) ==
    LET r1 == [rq EXCEPT !.returned[stage_name] = Some(Some(value))] IN
    IF stage_name = "Analyst"
    THEN StartStage([r1 EXCEPT !.analysis_report = Some(value)], "Synthesis")
    ELSE AfterSynthesis(r1, value)

\* One attempt of the running stage with backend outcome o.
Attempt(rq, stage_name, o) ==
    LET n == rq.attempt + 1
        r1 == [rq EXCEPT !.attempt = n,
                         !.calls[stage_name] = @ + 1,
                         !.fails[stage_name] = IF o.ok THEN @ ELSE @ + 1,
                         !.last[stage_name] = Some(o)]
        step == _invoke_with_retry(n, o)
    IN  IF step = "return" THEN StageReturned(r1, stage_name, o.value)
        ELSE IF step = "raise" THEN Raised(r1, o.exc)
        ELSE r1

\* The call that completed immediately before this one, when it was given
\* the same mapping (its fields in any order).
Before(transcript) ==
    IF last_call # None /\ SameFields[last_call[1].transcript, transcript]
    THEN last_call ELSE None

LastCallAfter(rq) == IF Finished(rq) THEN Some(Summary(rq)) ELSE last_call

\* A call of analyze is made; it runs up to its first backend call.
Call(r, via, transcript, validate_input, validate_output, use_cache) ==
    /\ \A q \in Requests : req[q].pc = "idle"
    /\ LET r0 == [Idle EXCEPT !.via = via, !.transcript = transcript,
                              !.validate_input = validate_input,
                              !.validate_output = validate_output,
                              !.use_cache = use_cache,
                              !.before = Before(transcript),
                              !.cache_at_call = cache]
           r1 == AnalyzeEntry(r0)
       IN  /\ req' = [req EXCEPT ![r] = r1]
           /\ last_call' = LastCallAfter(r1)
    /\ UNCHANGED <<enable_cache, max_retries, cache, utils_vars>>

\* pipeline.analyze(transcript, validate_input, validate_output, use_cache)
analyze(r) ==
    \E t \in PipelineTranscripts, vi \in BOOLEAN, vo \in BOOLEAN, uc \in BOOLEAN :
        Call(r, "direct", t, vi, vo, uc)

\* POST /analyze: pipeline.analyze(request.dict()) with the default switches
analyze_interview(r) ==
    \E body \in RequestBodies : Call(r, "http", body, TRUE, TRUE, TRUE)

\* One chain.invoke of the extraction stage and what analyze does next.
ExtractionAttemptOf(r, outcomes) ==
    /\ req[r].pc = "extracting"
    /\ \E o \in outcomes :
          LET r1 == Attempt(req[r], "Analyst", o) IN
          /\ req' = [req EXCEPT ![r] = r1]
          /\ last_call' = LastCallAfter(r1)
    /\ UNCHANGED <<enable_cache, max_retries, cache, utils_vars>>

\* One chain.invoke of the synthesis stage; on success lines 189-205 follow:
\* the quality validation, which only logs, then the store and the return.
SynthesisAttemptOf(r, outcomes) ==
    /\ req[r].pc = "synthesizing"
    /\ \E o \in outcomes :
          LET r1 == Attempt(req[r], "Synthesis", o) IN
          /\ req' = [req EXCEPT ![r] = r1]
          /\ cache' = CacheAfter(r1)
          /\ last_call' = LastCallAfter(r1)
    /\ UNCHANGED <<enable_cache, max_retries, utils_vars>>

ExtractionAttempt(r) == ExtractionAttemptOf(r, BackendOutcomes("Analyst"))
SynthesisAttempt(r) == SynthesisAttemptOf(r, BackendOutcomes("Synthesis"))

\* The caller has the report or the exception of a finished call.
Complete(r) ==
    /\ Finished(req[r])
    /\ req' = [req EXCEPT ![r] = Idle]
    /\ UNCHANGED <<enable_cache, max_retries, cache, last_call, utils_vars>>

\* `if self.cache: self.cache.clear()`: None and the empty dict are falsy
CacheCleared_Kept(c) == c
CacheCleared(c) == IF c # None /\ DOMAIN c[1] # {} THEN Some(EmptyDict) ELSE c

clear_cache ==
    /\ \A q \in Requests : req[q].pc = "idle"
    /\ cache' = CacheCleared(cache)
    /\ last_call' = IF last_call = None THEN None
                    ELSE Some([last_call[1] EXCEPT !.cleared = TRUE])
    /\ UNCHANGED <<enable_cache, max_retries, req, utils_vars>>

\* get_cache_stats(); `keys` is the list of keys, kept as their set
get_cache_stats ==
    IF ~enable_cache THEN [enabled |-> FALSE]
    ELSE [enabled |-> TRUE, size |-> Cardinality(DOMAIN cache[1]), keys |-> DOMAIN cache[1]]

Init ==
    /\ enable_cache \in BOOLEAN
    /\ max_retries \in 0..MaxRetriesBound
    /\ cache = InitialCache(enable_cache)
    /\ req = [r \in Requests |-> Idle]
    /\ last_call = None
    /\ arg = <<>>
    /\ vout = None
    /\ fout = None
    /\ qarg = None
    /\ qout = None

Next ==
    \/ \E r \in Requests : analyze(r)
    \/ \E r \in Requests : analyze_interview(r)
    \/ \E r \in Requests : ExtractionAttempt(r)
    \/ \E r \in Requests : SynthesisAttempt(r)
    \/ \E r \in Requests : Complete(r)
    \/ clear_cache

Spec == Init /\ [][Next]_vars

\* Every chain.invoke returns or raises: a stage that is running makes its
\* next backend call and gets the outcome.
Fairness ==
    \A r \in Requests : WF_vars(ExtractionAttempt(r)) /\ WF_vars(SynthesisAttempt(r))

\* The pipeline for the question of termination: calls of a valid and of an
\* invalid transcript with the default validation switches.
LiveTranscripts == {"qa", "qa-no-candidate"}

LiveCall(r) ==
    \E t \in LiveTranscripts, uc \in BOOLEAN : Call(r, "direct", t, TRUE, TRUE, uc)

NextLive ==
    \/ \E r \in Requests : LiveCall(r)
    \/ \E r \in Requests : ExtractionAttempt(r)
    \/ \E r \in Requests : SynthesisAttempt(r)
    \/ \E r \in Requests : Complete(r)

SpecLive == Init /\ [][NextLive]_vars /\ Fairness

(***************************************************************************)
(* Overlapping invocations on one pipeline.  analyze_interview is an       *)
(* `async def` that calls the blocking pipeline.analyze, so the event loop *)
(* runs one HTTP request at a time; invocations overlap when analyze is    *)
(* also called from other threads.  Shared state is touched at the lookup  *)
(* (the step of the call) and at the store (the step of the last backend   *)
(* call); last_call is the invocation that finished last.                  *)
(***************************************************************************)
ConcurrentRequests == {1, 2}
ConcurrentTranscripts == {"qa", "qa-reordered", "qb"}
ConcurrentBodies == {"qa"}

\* Backend outcomes of overlapping invocations: one AnalysisReport, every
\* FinalReport, one error.
ConcurrentOutcomes(stage_name) ==
    {o \in BackendOutcomes(stage_name) :
        IF o.ok THEN stage_name = "Analyst" => o.value = "analysis-1"
        ELSE o.exc.cls = "ConnectionError"}

InitConcurrent ==
    /\ enable_cache = TRUE
    /\ max_retries = 1
    /\ cache = InitialCache(enable_cache)
    /\ req = [r \in ConcurrentRequests |-> Idle]
    /\ last_call = None
    /\ arg = <<>>
    /\ vout = None
    /\ fout = None
    /\ qarg = None
    /\ qout = None

\* An invocation starts while others may be in progress.
ConcurrentCall(r, via, transcript, use_cache) ==
    /\ req[r].pc = "idle"
    /\ LET r0 == [Idle EXCEPT !.via = via, !.transcript = transcript,
                              !.use_cache = use_cache]
           r1 == AnalyzeEntry(r0)
       IN  /\ req' = [req EXCEPT ![r] = r1]
           /\ last_call' = LastCallAfter(r1)
    /\ UNCHANGED <<enable_cache, max_retries, cache, utils_vars>>

\* pipeline.analyze(transcript, use_cache=...) called from a thread
ThreadCall(r) ==
    \E t \in ConcurrentTranscripts, uc \in BOOLEAN : ConcurrentCall(r, "direct", t, uc)

\* POST /analyze: the event loop is free of any other request's analyze
HttpCall(r) ==
    /\ \A q \in ConcurrentRequests : req[q].via = "http" => ~Active(req[q])
    /\ \E body \in ConcurrentBodies : ConcurrentCall(r, "http", body, TRUE)

ConcurrentExtraction(r) == ExtractionAttemptOf(r, ConcurrentOutcomes("Analyst"))
ConcurrentSynthesis(r) == SynthesisAttemptOf(r, ConcurrentOutcomes("Synthesis"))

NextConcurrent ==
    \/ \E r \in ConcurrentRequests : ThreadCall(r)
    \/ \E r \in ConcurrentRequests : HttpCall(r)
    \/ \E r \in ConcurrentRequests : ConcurrentExtraction(r)
    \/ \E r \in ConcurrentRequests : ConcurrentSynthesis(r)
    \/ \E r \in ConcurrentRequests : Complete(r)

SpecConcurrent == InitConcurrent /\ [][NextConcurrent]_vars

(***************************************************************************)
(* The utils functions on their own: an argument is drawn, then each       *)
(* function is called on it.                                               *)
(***************************************************************************)
InitUtils ==
    /\ enable_cache = TRUE
    /\ max_retries = 1
    /\ cache = InitialCache(TRUE)
    /\ req = [r \in Requests |-> Idle]
    /\ last_call = None
    /\ arg \in UtilInputs
    /\ vout = None
    /\ fout = None
    /\ qarg = None
    /\ qout = None

CallValidate ==
    /\ vout = None
    /\ vout' = Some(validate_transcript(arg))
    /\ UNCHANGED <<pipeline_vars, arg, fout, qarg, qout>>

CallFormat ==
    /\ fout = None
    /\ fout' = Some(format_transcript(arg))
    /\ UNCHANGED <<pipeline_vars, arg, vout, qarg, qout>>

NextUtils == CallValidate \/ CallFormat

SpecUtils == InitUtils /\ [][NextUtils]_vars

(***************************************************************************)
(* validate_report_quality on its own: a report is drawn, then checked.  *)
(***************************************************************************)
InitQuality ==
    /\ enable_cache = TRUE
    /\ max_retries = 1
    /\ cache = InitialCache(TRUE)
    /\ req = [r \in Requests |-> Idle]
    /\ last_call = None
    /\ arg = <<>>
    /\ vout = None
    /\ fout = None
    /\ qarg \in {Some(x) : x \in QualityInputs}
    /\ qout = None

CallQuality ==
    /\ qout = None
    /\ qout' = Some(validate_report_quality(qarg[1]))
    /\ UNCHANGED <<pipeline_vars, arg, vout, fout, qarg>>

NextQuality == CallQuality

SpecQuality == InitQuality /\ [][NextQuality]_vars


(***************************************************************************)
(* Properties of validate_transcript (checked under SpecUtils).            *)
(***************************************************************************)
\* The transcript a utils function examines: the argument itself, or the
\* mapping under its `transcript` field.
IsTranscript(obj) == Unwrap(obj).kind = "dict"
EntriesOf(obj) == Unwrap(obj).d

\* `phrase in reason.lower()`
Mentions(reason, phrase) == Contains(phrase, Lower(reason))
FailsMentioning(res, phrase) ==
    res.tag = "return" /\ ~res.ok /\ res.reason # None /\ Mentions(res.reason[1], phrase)

Validated == vout # None /\ IsTranscript(arg)

\* C8 as stated: every transcript with fewer than 2 entries (0 or 1) fails
\* validation with a reason mentioning "at least 2 exchanges".
C8_FewerThanTwoMentionsMinimum ==
    (Validated /\ Len(EntriesOf(arg)) < 2)
        => FailsMentioning(vout[1], "at least 2 exchanges")

\* C8 amended: every transcript with exactly 1 entry fails validation with a
\* reason mentioning "at least 2 exchanges"; a transcript with 0 entries fails
\* with the emptiness reason, which does not mention the minimum.
C8_OneEntryMentionsMinimum ==
    /\ (Validated /\ Len(EntriesOf(arg)) = 1)
          => FailsMentioning(vout[1], "at least 2 exchanges")
    /\ (Validated /\ Len(EntriesOf(arg)) = 0)
          => /\ FailsMentioning(vout[1], "empty")
             /\ ~FailsMentioning(vout[1], "at least 2 exchanges")

C8_Witness ==
    /\ Validated
    /\ Len(EntriesOf(arg)) = 1
    /\ IsInterviewerKey(EntriesOf(arg)[1].k)
    /\ vout[1] = Invalid(MsgTooShort)

SomeKey(d, P(_)) == \E i \in 1..Len(d) : P(d[i].k)

\* C9 as stated: every transcript, of any size, with no interviewer key fails
\* with a reason mentioning "interviewer", and every transcript with no
\* candidate key fails with a reason mentioning "candidate".
C9_MissingRoleMentionsRole ==
    /\ (Validated /\ ~SomeKey(EntriesOf(arg), IsInterviewerKey))
          => FailsMentioning(vout[1], "interviewer")
    /\ (Validated /\ ~SomeKey(EntriesOf(arg), IsCandidateKey))
          => FailsMentioning(vout[1], "candidate")

\* C9 amended: every transcript with at least 2 entries and no interviewer
\* key fails with a reason mentioning "interviewer"; every transcript with at
\* least 2 entries, some interviewer key and no candidate key fails with a
\* reason mentioning "candidate".
C9_MissingRoleOfTwoOrMore ==
    /\ (Validated /\ Len(EntriesOf(arg)) >= 2 /\ ~SomeKey(EntriesOf(arg), IsInterviewerKey))
          => FailsMentioning(vout[1], "interviewer")
    /\ (Validated /\ Len(EntriesOf(arg)) >= 2
          /\ SomeKey(EntriesOf(arg), IsInterviewerKey)
          /\ ~SomeKey(EntriesOf(arg), IsCandidateKey))
          => FailsMentioning(vout[1], "candidate")

C9_Witness ==
    /\ Validated
    /\ Len(EntriesOf(arg)) >= 2
    /\ SomeKey(EntriesOf(arg), IsInterviewerKey)
    /\ ~SomeKey(EntriesOf(arg), IsCandidateKey)
    /\ vout[1] = Invalid(MsgNoCandidate)

\* an entry whose text is empty after trimming
BlankText(e) == e.v.kind = "str" /\ Strip(e.v.s) = ""

\* C10: validate_transcript checks (1) non-empty, (2) at least 2 entries,
\* (3) an interviewer key, then a candidate key, (4) every text non-empty after
\* trimming, and returns the reason of the first check that fails (for check
\* 4, naming the first blank entry); it returns success with no reason
\* exactly when all four pass; a transcript of zero entries, flat or nested,
\* fails with a reason mentioning emptiness.
C10_ChecksInOrder ==
    Validated =>
        LET d == EntriesOf(arg)
            res == vout[1]
            blanks == {i \in 1..Len(d) : BlankText(d[i])}
            first == CHOOSE i \in blanks : \A j \in blanks : i <= j
        IN  /\ res.tag = "return"
            /\ Len(d) = 0 => (res = Invalid(MsgEmpty) /\ FailsMentioning(res, "empty"))
            /\ Len(d) = 1 => res = Invalid(MsgTooShort)
            /\ (Len(d) >= 2 /\ ~SomeKey(d, IsInterviewerKey)) => res = Invalid(MsgNoInterviewer)
            /\ (Len(d) >= 2 /\ SomeKey(d, IsInterviewerKey) /\ ~SomeKey(d, IsCandidateKey))
                  => res = Invalid(MsgNoCandidate)
            /\ (Len(d) >= 2 /\ SomeKey(d, IsInterviewerKey) /\ SomeKey(d, IsCandidateKey)
                  /\ blanks # {})
                  => res = Invalid(MsgEntryEmpty(d[first].k))
            /\ res.ok <=> (/\ Len(d) >= 2
                           /\ SomeKey(d, IsInterviewerKey)
                           /\ SomeKey(d, IsCandidateKey)
                           /\ blanks = {})
            /\ res.ok => res.reason = None

\* Check 4 fails on a transcript with two blank entries, the first a
\* whitespace-only text; the reason names that first entry.
C10_Witness ==
    /\ Validated
    /\ LET d == EntriesOf(arg) IN
       /\ Len(d) = 3
       /\ d[1].v.s = "Hi" /\ d[2].v.s = " \n" /\ d[3].v.s = ""
       /\ vout[1] = Invalid(MsgEntryEmpty(d[2].k))

(***************************************************************************)
(* Properties of format_transcript (checked under SpecUtils).              *)
(***************************************************************************)
Formatted_ == fout # None /\ IsTranscript(arg)

\* role-rank of a key: interviewer 0, candidate 1, other 2
RoleRankOf(k) ==
    IF Mentions(k, "interviewer") THEN 0 ELSE IF Mentions(k, "candidate") THEN 1 ELSE 2
RoleRankTable == [k \in GenKeys \cup {"candidate_1", "interviewer_1"} |-> RoleRankOf(k)] @@ <<>>
RoleRank(k) == IF k \in DOMAIN RoleRankTable THEN RoleRankTable[k] ELSE RoleRankOf(k)

\* k1 comes before k2 in the order (role-rank, key)
KeyBefore(k1, k2) ==
    RoleRank(k1) < RoleRank(k2) \/ (RoleRank(k1) = RoleRank(k2) /\ StrLess(k1, k2))

\* The keys of d in the order (role-rank, key): the key at position i is the
\* one that exactly i - 1 keys of d come before.
KeysInRoleOrder(d) ==
    [i \in 1..Len(d) |->
        CHOOSE k \in {d[j].k : j \in 1..Len(d)} :
            Cardinality({j \in 1..Len(d) : KeyBefore(d[j].k, k)}) = i - 1]

RoleLabel(k) == IF RoleRank(k) = 0 THEN "Interviewer" ELSE "Candidate"

\* formatted.index(pat): the first position of pat in text, 0 when absent
Index(text, pat) ==
    IF Contains(pat, text)
    THEN CHOOSE i \in 1..Len(text) :
            /\ SubSeq(text, i, i + Len(pat) - 1) = pat
            /\ \A j \in 1..(i - 1) : SubSeq(text, j, j + Len(pat) - 1) # pat
    ELSE 0

StrictlyBefore(text, a, b) ==
    Index(text, a) > 0 /\ Index(text, b) > 0 /\ Index(text, a) < Index(text, b)

\* C11: format_transcript emits one line "<Role>: <text>" per key, joined by
\* blank lines, in the order (role-rank, key) with interviewer 0, candidate 1,
\* other 2: every interviewer line precedes every candidate line and, within a
\* role, lines are in lexical key order; for the keys candidate, interviewer,
\* candidate_1, interviewer_1 "Interviewer: question" comes strictly before
\* "Candidate: answer" and "Interviewer: question 2" strictly before
\* "Candidate: answer 2".
C11_NormalizationOrdering ==
    Formatted_ =>
        \A d \in {EntriesOf(arg)} : \A keys \in {KeysInRoleOrder(d)} :
            LET lines == [i \in 1..Len(d) |->
                             RoleLabel(keys[i]) \o ": " \o Repr(Get(d, keys[i]))]
            IN  /\ fout[1].tag = "return"
                /\ fout[1].text = Join("\n\n", lines)
                /\ \A i, j \in 1..Len(d) :
                      i < j =>
                         /\ RoleRank(keys[i]) <= RoleRank(keys[j])
                         /\ RoleRank(keys[i]) = RoleRank(keys[j]) => StrLess(keys[i], keys[j])
                         /\ ~(/\ RoleLabel(keys[i]) = "Candidate"
                              /\ RoleLabel(keys[j]) = "Interviewer")
                /\ arg = TestFormattingOrder =>
                      /\ StrictlyBefore(fout[1].text, "Interviewer: question", "Candidate: answer")
                      /\ StrictlyBefore(fout[1].text, "Interviewer: question 2",
                                        "Candidate: answer 2")

\* The transcript of test_formatting_order has been formatted: both
\* interviewer lines come first, each role in key order.
C11_Witness ==
    /\ Formatted_
    /\ arg = TestFormattingOrder
    /\ fout[1].text = "Interviewer: question\n\nInterviewer: question 2\n\n"
                          \o "Candidate: answer\n\nCandidate: answer 2"

\* A flat transcript mapping: every field holds a text.
IsFlatMapping(obj) == \A i \in 1..Len(obj) : obj[i].v.kind = "str"

GenMetadata == {Metadata, DictVal(<<>>)}
\* the wrapped record {metadata: M, transcript: T}
WrappedWith(M, T) == <<Entry("metadata", M), Entry("transcript", DictVal(T))>>

\* C18 as stated: for every transcript mapping T and every metadata value M,
\* validate_transcript and format_transcript give the same result on the
\* flat mapping T as on the wrapped record {metadata: M, transcript: T},
\* hence the same fingerprint whatever the metadata.
C18_ShapesAgree ==
    IsFlatMapping(arg) =>
        \A M \in GenMetadata :
            /\ vout # None => vout[1] = validate_transcript(WrappedWith(M, arg))
            /\ fout # None =>
                  /\ fout[1] = format_transcript(WrappedWith(M, arg))
                  /\ fout[1].tag = "return"
                  /\ _get_cache_key(fout[1].text)
                        = _get_cache_key(format_transcript(WrappedWith(M, arg)).text)

(***************************************************************************)
(* Properties of validate_report_quality (checked under SpecQuality).      *)
(***************************************************************************)
\* a resource link that is non-blank and absolute
LinkAcceptable(link) ==
    /\ Strip(link) # ""
    /\ \E scheme \in {"http://", "https://"} : SubSeq(link, 1, Len(scheme)) = scheme

\* The conditions of a report of good quality, in their fixed order, each
\* with the issue reported when it is violated.
QualityConditions(rep) ==
    << <<Len(rep.headline) >= 20, "Headline is too short/generic">>,
       <<Len(rep.overall_impression) >= 50, "Overall impression lacks detail">>,
       <<Len(rep.strengths) >= 1, "No strengths identified">>,
       <<Len(rep.weaknesses) >= 1, "No weaknesses identified">>,
       <<Len(rep.priority_topics) >= 1, "No priority topics defined">>,
       <<Len(rep.roadmap_2_weeks) >= 2, "2-week roadmap insufficiently detailed">>,
       <<Len(rep.recommended_resources) >= 1, "No learning resources provided">> >>

Violated(c) == ~c[1]

\* issue i of `issues` is about condition c, or about a resource
IsAbout(issue, c) == issue = c[2]
IsResourceIssue(issue, res) ==
    /\ StartsWith(issue, "Resource '" \o res.topic \o "' has ")
    /\ ~LinkAcceptable(res.link)

\* C13: validate_report_quality returns passed = true exactly when headline
\* length >= 20, overall impression length >= 50, at least one strength, one
\* weakness, one priority topic, 2 roadmap steps and one resource, and every
\* resource link is non-blank and starts with http:// or https://; otherwise
\* passed = false and the issue list is non-empty, with one issue per
\* violated condition in that fixed order, then at most one issue per
\* resource, in resource order.
C13_QualityVerdict ==
    qout # None =>
        \A rep \in {qarg[1]} : \A conds \in {QualityConditions(rep)} :
            LET issues == qout[1].issues
                res == rep.recommended_resources
                violated == {i \in 1..7 : Violated(conds[i])}
                bad == {i \in 1..Len(res) : ~LinkAcceptable(res[i].link)}
                \* the number of issues that come before the one of condition i
                rank(i) == Cardinality({j \in violated : j < i})
                rankRes(i) == Cardinality(violated) + Cardinality({j \in bad : j < i})
            IN  /\ qout[1].passed <=> (violated = {} /\ bad = {})
                /\ ~qout[1].passed => Len(issues) > 0
                /\ Len(issues) = Cardinality(violated) + Cardinality(bad)
                /\ \A i \in violated : IsAbout(issues[rank(i) + 1], conds[i])
                /\ \A i \in bad : IsResourceIssue(issues[rankRes(i) + 1], res[i])

\* A report violating the impression, roadmap and link conditions: three
\* issues for the conditions in order, none for the acceptable link, one for
\* each of the two bad links.
C13_Witness ==
    /\ qout # None
    /\ Len(qarg[1].headline) = 20
    /\ Len(qarg[1].overall_impression) = 49
    /\ Len(qarg[1].roadmap_2_weeks) = 1
    /\ Len(qarg[1].strengths) = 1 /\ Len(qarg[1].weaknesses) = 1
    /\ Len(qarg[1].priority_topics) = 1
    /\ qarg[1].recommended_resources
          = <<Resource("Go", "ftp://a.io"), Resource("SQL", "")>>
    /\ qout[1] = [passed |-> FALSE,
                  issues |-> <<"Overall impression lacks detail",
                               "2-week roadmap insufficiently detailed",
                               "Resource 'Go' has invalid link format",
                               "Resource 'SQL' has empty link">>]

(***************************************************************************)
(* Properties of the pipeline (checked under Spec).                        *)
(***************************************************************************)
BackendCalls(rq) == rq.calls["Analyst"] + rq.calls["Synthesis"]

\* The call passes the validation step of analyze (or skips it).
PassesValidation(rq) == ~(rq.validate_input /\ ~Validation[rq.transcript].ok)

\* The call follows, with no clear_cache between, a call of the same
\* transcript that returned a report, and both left use_cache at its default.
RepeatsCachedCall(rq) ==
    /\ enable_cache
    /\ rq.pc # "idle"
    /\ rq.use_cache
    /\ rq.before # None
    /\ rq.before[1].transcript = rq.transcript
    /\ ~rq.before[1].cleared
    /\ rq.before[1].use_cache
    /\ rq.before[1].result # None

AnsweredFromCache(rq) ==
    /\ rq.pc = "done"
    /\ rq.result = rq.before[1].result
    /\ BackendCalls(rq) = 0

\* C1 as stated: with the cache enabled, the second of two sequential analyze
\* calls of one transcript (use_cache default), the first of which succeeded,
\* returns the same report and makes no backend call.
C1_SecondCallAnsweredFromCache ==
    \A r \in Requests : RepeatsCachedCall(req[r]) => AnsweredFromCache(req[r])

\* C1 amended: the same, for a second call whose input validation, when
\* enabled, accepts the transcript (the first call may have skipped it).
C1_SecondValidCallAnsweredFromCache ==
    \A r \in Requests :
        (RepeatsCachedCall(req[r]) /\ PassesValidation(req[r])) => AnsweredFromCache(req[r])

C1_Witness ==
    \E r \in Requests :
        /\ RepeatsCachedCall(req[r])
        /\ req[r].validate_input
        /\ req[r].hit
        /\ AnsweredFromCache(req[r])

\* C2: in a pipeline constructed with enable_cache = False nothing is ever
\* stored, no call is answered from a cache, every call that passes validation
\* invokes the extraction stage first and, once extraction returned, the
\* synthesis stage, and a returned report is the one the synthesis backend
\* gave this call.
C2_CacheDisabled ==
    ~enable_cache =>
        /\ cache = None
        /\ \A r \in Requests :
              LET rq == req[r] IN
              rq.pc # "idle" =>
                  /\ ~rq.hit
                  /\ PassesValidation(rq) => (rq.stages # <<>> /\ rq.stages[1] = "Analyst")
                  /\ rq.analysis_report # None => rq.stages = <<"Analyst", "Synthesis">>
                  /\ rq.pc = "done" =>
                        /\ rq.calls["Analyst"] >= 1 /\ rq.calls["Synthesis"] >= 1
                        /\ rq.last["Synthesis"] # None
                        /\ rq.last["Synthesis"][1].ok
                        /\ rq.result = Some(rq.last["Synthesis"][1].value)

\* A call with use_cache = True repeats a successful call of the same
\* transcript on a pipeline without cache, and runs both stages again.
C2_Witness ==
    \E r \in Requests :
        LET rq == req[r] IN
        /\ ~enable_cache
        /\ rq.pc = "done"
        /\ rq.use_cache
        /\ rq.before # None /\ rq.before[1].transcript = rq.transcript
        /\ rq.before[1].use_cache /\ rq.before[1].result # None
        /\ rq.result # rq.before[1].result
        /\ rq.calls["Analyst"] >= 1 /\ rq.calls["Synthesis"] >= 1

\* C3: a call with validate_input = True on a transcript validate_transcript
\* rejects raises ValueError before normalisation, cache lookup and any stage:
\* nothing is formatted, no stage runs, no backend call is made, the call is
\* not answered from the cache and the cache is as it was.
C3_ValidationBlocks ==
    \A r \in Requests :
        LET rq == req[r] IN
        (rq.pc # "idle" /\ rq.validate_input /\ ~Validation[rq.transcript].ok) =>
            /\ rq.pc = "failed"
            /\ rq.error # None /\ rq.error[1].cls = "ValueError"
            /\ StartsWith(rq.error[1].msg, "Invalid transcript: ")
            /\ rq.result = None
            /\ rq.formatted = None
            /\ ~rq.hit
            /\ rq.stages = <<>>
            /\ BackendCalls(rq) = 0
            /\ cache = rq.cache_at_call

\* An invalid transcript is rejected while the cache holds an entry under
\* the fingerprint of its normalised text.
C3_Witness ==
    \E r \in Requests :
        LET rq == req[r] IN
        /\ rq.pc = "failed"
        /\ rq.validate_input /\ rq.use_cache /\ enable_cache
        /\ ~Validation[rq.transcript].ok
        /\ rq.error[1].cls = "ValueError"
        /\ _get_cache_key(Formatted[rq.transcript].text) \in DOMAIN cache[1]

\* The stage has returned to analyze with the value the backend gave last.
StageReturnedLast(rq, stage_name) ==
    /\ rq.last[stage_name] # None
    /\ rq.last[stage_name][1].ok
    /\ IF stage_name = "Analyst"
       THEN /\ rq.analysis_report = Some(rq.last[stage_name][1].value)
            /\ "Synthesis" \in {rq.stages[i] : i \in 1..Len(rq.stages)}
            /\ rq.pc = "failed" => rq.fails["Synthesis"] = max_retries
       ELSE /\ rq.result = Some(rq.last[stage_name][1].value)
            /\ rq.pc = "done"

\* C4: a stage whose backend call fails on attempts 1..k-1 and succeeds on
\* attempt k <= max_retries returns the attempt-k result without raising after
\* exactly k backend calls: at most one call of a stage succeeds, it is the
\* last call made, all calls before it failed, and its value is what the
\* stage returned.
C4_RetrySuccess ==
    \A r \in Requests : \A stage_name \in StageNames :
        LET rq == req[r]
            succeeded == rq.calls[stage_name] - rq.fails[stage_name]
        IN  /\ succeeded \in {0, 1}
            /\ rq.calls[stage_name] <= max_retries
            /\ (rq.last[stage_name] # None /\ rq.last[stage_name][1].ok) <=> succeeded = 1
            /\ succeeded = 1 =>
                  /\ rq.calls[stage_name] = rq.fails[stage_name] + 1
                  /\ StageReturnedLast(rq, stage_name)

\* The extraction stage failed once and succeeded on attempt 2 = max_retries.
C4_Witness ==
    \E r \in Requests :
        LET rq == req[r] IN
        /\ max_retries = 2
        /\ rq.calls["Analyst"] = 2 /\ rq.fails["Analyst"] = 1
        /\ StageReturnedLast(rq, "Analyst")
        /\ rq.pc = "synthesizing"

\* The stage of rq that ran last used up its attempts.
Exhausted(rq) ==
    /\ rq.pc = "failed"
    /\ rq.stages # <<>>
    /\ max_retries >= 1
    /\ rq.fails[rq.stages[Len(rq.stages)]] = max_retries

\* C5 as stated: when a stage fails on all max_retries attempts, analyze
\* raises a failure that names the failing stage and carries the last
\* underlying error.
C5_ExhaustionNamesStage ==
    \A r \in Requests :
        LET rq == req[r]
            stage_name == rq.stages[Len(rq.stages)]
        IN  Exhausted(rq) =>
                /\ rq.error # None
                /\ Contains(stage_name, rq.error[1].msg)
                /\ Contains(rq.last[stage_name][1].exc.msg, rq.error[1].msg)

\* Every change of the cache is clear_cache, or the store of the report the
\* synthesis backend just gave a request whose extraction had succeeded, under
\* the fingerprint of that request's normalised transcript.
C6_Step ==
    cache' # cache =>
        \/ cache' = Some(EmptyDict)
        \/ \E r \in Requests :
              LET rq == req[r]
                  done == req'[r]
                  cache_key == _get_cache_key(done.formatted[1])
              IN  /\ rq.pc = "synthesizing"
                  /\ rq.analysis_report # None
                  /\ rq.last["Analyst"] # None /\ rq.last["Analyst"][1].ok
                  /\ done.pc = "done"
                  /\ done.last["Synthesis"][1].ok
                  /\ done.result = Some(done.last["Synthesis"][1].value)
                  /\ done.formatted = Some(Formatted[done.transcript].text)
                  /\ cache # None /\ cache' # None
                  /\ DOMAIN cache'[1] = DOMAIN cache[1] \cup {cache_key}
                  /\ cache'[1][cache_key] = done.result[1]
                  /\ \A k \in DOMAIN cache[1] \ {cache_key} : cache'[1][k] = cache[1][k]

\* Cache values are final reports; a failed call returned no report, raised
\* the error of the stage that used up its attempts, and left the cache as it
\* was when the call was made.
C6_State ==
    /\ cache # None => \A k \in DOMAIN cache[1] : cache[1][k] \in FinalReports
    /\ \A r \in Requests :
          LET rq == req[r] IN
          rq.pc = "failed" =>
              /\ rq.result = None
              /\ rq.error # None
              /\ cache = rq.cache_at_call
              /\ Exhausted(rq) => rq.error = Some(rq.last[rq.stages[Len(rq.stages)]][1].exc)

\* C6: every cache entry holds a FinalReport that a synthesis stage returned
\* after the extraction stage of the same call succeeded on the same
\* normalised transcript; a call in which a stage uses up its attempts returns
\* no report, propagates the error and leaves the cache as it was.
C6_NoPartialResult == []C6_State /\ [][C6_Step]_vars

\* Synthesis used up its attempts after extraction succeeded, with the
\* cache in use and holding an entry.
C6_Witness ==
    \E r \in Requests :
        LET rq == req[r] IN
        /\ Exhausted(rq)
        /\ rq.stages = <<"Analyst", "Synthesis">>
        /\ rq.analysis_report # None
        /\ rq.use_cache /\ enable_cache
        /\ DOMAIN cache[1] # {}
        /\ cache = rq.cache_at_call

\* The call failed in validate_transcript's verdict, not later.
ValidationFailure(rq) == rq.pc = "failed" /\ rq.validate_input /\ ~Validation[rq.transcript].ok

\* C7 as stated: a failure of pipeline.analyze reaches the HTTP layer as 400
\* when it is a transcript validation failure and as 500 otherwise, whatever
\* the exception type; a stage failure is never answered 400.
C7_ErrorBoundary ==
    \A r \in Requests :
        LET rq == req[r] IN
        (rq.via = "http" /\ rq.pc = "failed") =>
            /\ rq.status # None
            /\ rq.status[1] = (IF ValidationFailure(rq) THEN StatusOfValueError
                               ELSE StatusOfException)

\* d with the entries at positions i and i + 1 exchanged
SwapAt(d, i) ==
    [j \in 1..Len(d) |-> IF j = i THEN d[i + 1] ELSE IF j = i + 1 THEN d[i] ELSE d[j]]

\* format_transcript, and with it the fingerprint, is the same after any
\* exchange of two neighbouring fields (hence after any reordering), for
\* every generated mapping, flat and wrapped.
FormatIgnoresFieldOrder ==
    \A d \in Mappings : \A i \in 1..(Len(d) - 1) :
        /\ format_transcript(SwapAt(d, i)) = format_transcript(d)
        /\ format_transcript(Wrapped(SwapAt(d, i))) = format_transcript(d)
        /\ format_transcript(d).tag = "return"
        /\ _get_cache_key(format_transcript(SwapAt(d, i)).text)
              = _get_cache_key(format_transcript(d).text)

\* The call follows, with no clear_cache between, a call that returned a
\* report for the same mapping with its fields in another order, and both
\* calls use the cache.
FollowsReorderedCachedCall(rq) ==
    /\ enable_cache
    /\ rq.pc # "idle"
    /\ rq.use_cache
    /\ rq.before # None
    /\ rq.before[1].transcript # rq.transcript
    /\ ~rq.before[1].cleared
    /\ rq.before[1].use_cache
    /\ rq.before[1].result # None

\* The call was answered from the entry the reordered call stored.
HitsReorderedEntry(rq) ==
    /\ Formatted[rq.transcript] = Formatted[rq.before[1].transcript]
    /\ rq.formatted = Some(Formatted[rq.before[1].transcript].text)
    /\ rq.hit
    /\ rq.pc = "done"
    /\ rq.result = rq.before[1].result
    /\ BackendCalls(rq) = 0

\* C12 as stated: two transcripts with the same key-to-text mapping in
\* different field orders render the same text and fingerprint, and every
\* sequential analyze of one after a successful cached analyze of the other is
\* a cache hit.
C12_ReorderedCallHits ==
    /\ FormatIgnoresFieldOrder
    /\ \A r \in Requests : FollowsReorderedCachedCall(req[r]) => HitsReorderedEntry(req[r])

\* C12 amended: the same, where the later call is a cache hit when its input
\* validation, if enabled, accepts the transcript.
C12_ReorderedValidCallHits ==
    /\ FormatIgnoresFieldOrder
    /\ \A r \in Requests :
          (FollowsReorderedCachedCall(req[r]) /\ PassesValidation(req[r]))
              => HitsReorderedEntry(req[r])

\* The validated call of a transcript is answered from the entry stored by
\* the call of the same mapping with its fields in the other order.
C12_Witness ==
    \E r \in Requests :
        LET rq == req[r] IN
        /\ FollowsReorderedCachedCall(rq)
        /\ rq.validate_input
        /\ rq.transcript = "qa-reordered" /\ rq.before[1].transcript = "qa"
        /\ TranscriptObject("qa") # TranscriptObject("qa-reordered")
        /\ HitsReorderedEntry(rq)

\* What a call leaves apart from the log: everything but the validate_output
\* switch and the logged quality verdict.
Outcome(rq) == [rq EXCEPT !.validate_output = TRUE, !.quality = None]

\* The step of a synthesis attempt is the one the same call would take with
\* the validate_output switch the other way: same report or error, same
\* number of backend calls, same cache.
C14_Step ==
    \A r \in Requests :
        (req[r].pc = "synthesizing" /\ req'[r] # req[r]) =>
            \E o \in BackendOutcomes("Synthesis") :
                LET rq == req[r]
                    other == [rq EXCEPT !.validate_output = ~rq.validate_output]
                    mine == Attempt(rq, "Synthesis", o)
                    theirs == Attempt(other, "Synthesis", o)
                IN  /\ req'[r] = mine
                    /\ Outcome(mine) = Outcome(theirs)
                    /\ cache' = CacheAfter(mine)
                    /\ cache' = CacheAfter(theirs)

\* A call whose report was checked returned that report, raised nothing, made
\* no backend call after the one that gave the report, and stored it when
\* the cache is in use, whether or not issues were found.
C14_State ==
    \A r \in Requests :
        LET rq == req[r] IN
        /\ rq.quality # None =>
              /\ rq.validate_output
              /\ rq.pc = "done" /\ rq.error = None /\ ~rq.hit
              /\ rq.result = Some(rq.last["Synthesis"][1].value)
              /\ rq.quality = Some(validate_report_quality(ReportObject(rq.result[1])))
              /\ rq.calls["Synthesis"] = rq.fails["Synthesis"] + 1
              /\ rq.calls["Analyst"] = rq.fails["Analyst"] + 1
              /\ (rq.use_cache /\ enable_cache) =>
                    /\ _get_cache_key(rq.formatted[1]) \in DOMAIN cache[1]
                    /\ cache[1][_get_cache_key(rq.formatted[1])] = rq.result[1]
        /\ (rq.pc = "done" /\ ~rq.hit /\ rq.validate_output) => rq.quality # None

\* C14: quality validation is advisory only: for every FinalReport synthesis
\* returns, analyze with validate_output = True returns the same report and
\* leaves the same cache as with validate_output = False, whether or not
\* issues are found; an issue never raises, never triggers a retry of a stage
\* and never prevents the store.
C14_QualityAdvisory == []C14_State /\ [][C14_Step]_vars

\* A report with quality issues was returned and stored by a call with
\* validate_output = True.
C14_Witness ==
    \E r \in Requests :
        LET rq == req[r] IN
        /\ rq.pc = "done" /\ rq.validate_output /\ rq.use_cache /\ enable_cache
        /\ rq.quality # None /\ ~rq.quality[1].passed
        /\ Len(rq.quality[1].issues) = 3
        /\ rq.result = Some("report-2")
        /\ cache[1][_get_cache_key(rq.formatted[1])] = "report-2"
        /\ cache # rq.cache_at_call

\* The call was made with validation enabled and the cache in use on a
\* pipeline whose enabled cache was empty, and it returned.
FirstCallSucceeded(rq) ==
    /\ enable_cache
    /\ rq.pc = "done"
    /\ rq.validate_input /\ rq.use_cache
    /\ rq.cache_at_call = Some(EmptyDict)

\* C15: starting from an empty enabled cache, one successful analyze with
\* validation enabled (and use_cache at its default) returns exactly the
\* FinalReport the synthesis backend returned for the AnalysisReport the
\* extraction backend returned, and afterwards the cache holds exactly one
\* entry, keyed by the fingerprint of the normalized transcript, whose value
\* is that report.
C15_EndToEndStore ==
    \A r \in Requests :
        LET rq == req[r]
            text == format_transcript(TranscriptObject(rq.transcript)).text
            cache_key == _get_cache_key(text)
        IN  FirstCallSucceeded(rq) =>
                /\ validate_transcript(TranscriptObject(rq.transcript)) = Valid
                /\ rq.formatted = Some(text)
                /\ rq.stages = <<"Analyst", "Synthesis">>
                /\ rq.analysis_report = Some(rq.last["Analyst"][1].value)
                /\ rq.last["Synthesis"][1].ok
                /\ rq.result = Some(rq.last["Synthesis"][1].value)
                /\ cache # None
                /\ DOMAIN cache[1] = {cache_key}
                /\ cache[1][cache_key] = rq.result[1]
                /\ get_cache_stats = [enabled |-> TRUE, size |-> 1, keys |-> {cache_key}]

\* The request record of the end-to-end scenario was analysed on an empty
\* enabled cache; the backend's report is returned and is the one entry.
C15_Witness ==
    \E r \in Requests :
        LET rq == req[r] IN
        /\ FirstCallSucceeded(rq)
        /\ TranscriptObject(rq.transcript)
              = <<Entry("metadata", DictVal(<<Entry("candidate_id", StrVal("C-1"))>>)),
                  Entry("transcript", DictVal(<<Entry("interviewer", StrVal("Q?")),
                                                Entry("candidate", StrVal("A."))>>))>>
        /\ rq.last["Synthesis"][1].value = "report-1"
        /\ rq.result = Some("report-1")
        /\ cache = Some(("md5:Interviewer: Q?\n\nCandidate: A." :> "report-1"))

\* The state of the two-stage controller in a call: Idle until a normalized
\* transcript that missed the cache triggers the extraction stage.
ControllerState(rq) ==
    IF rq.stages = <<>> THEN "Idle"
    ELSE CASE rq.pc = "extracting" -> "Extracting"
           [] rq.pc = "synthesizing" -> "Synthesizing"
           [] rq.pc = "done" -> "Done"
           [] rq.pc = "failed" -> "Failed"

\* The extraction stage of the call returned a report to analyze.
ExtractionSucceeded(rq) ==
    /\ rq.last["Analyst"] # None
    /\ rq.last["Analyst"][1].ok
    /\ rq.analysis_report = Some(rq.last["Analyst"][1].value)

C16_State ==
    \A r \in Requests :
        LET rq == req[r] IN
        /\ rq.stages \in {<<>>, <<"Analyst">>, <<"Analyst", "Synthesis">>}
        /\ ControllerState(rq) = "Extracting" => rq.stages = <<"Analyst">>
        /\ ControllerState(rq) \in {"Synthesizing", "Done"}
              => rq.stages = <<"Analyst", "Synthesis">>
        \* synthesis is invoked only after extraction succeeded, on its output
        /\ (rq.calls["Synthesis"] > 0 \/ rq.input["Synthesis"] # None
                \/ rq.stages = <<"Analyst", "Synthesis">>) =>
              /\ ExtractionSucceeded(rq)
              /\ rq.input["Synthesis"]
                    = Some([field |-> "analysis_report",
                            text |-> "{\"snippets\": " \o rq.last["Analyst"][1].value \o "}"])
        \* never after extraction used up its attempts
        /\ (rq.last["Analyst"] # None /\ ~rq.last["Analyst"][1].ok
                /\ rq.fails["Analyst"] = max_retries) =>
              /\ ControllerState(rq) = "Failed"
              /\ rq.stages = <<"Analyst">>
              /\ rq.calls["Synthesis"] = 0 /\ rq.input["Synthesis"] = None
        \* Failed is entered from the stage that ran last
        /\ ControllerState(rq) = "Failed" =>
              LET stage_name == rq.stages[Len(rq.stages)] IN
              \/ max_retries = 0 /\ stage_name = "Analyst"
              \/ rq.fails[stage_name] = max_retries /\ ~rq.last[stage_name][1].ok

C16_Step ==
    \A r \in Requests :
        LET a == ControllerState(req[r])
            b == ControllerState(req'[r])
        IN  /\ a = "Idle" =>
                  \/ b \in {"Idle", "Extracting"}
                  \/ b = "Failed" /\ max_retries = 0 /\ req'[r].stages = <<"Analyst">>
            /\ a = "Extracting" => b \in {"Extracting", "Synthesizing", "Failed"}
            /\ a = "Synthesizing" => b \in {"Synthesizing", "Done", "Failed"}
            /\ a \in {"Done", "Failed"} => b \in {a, "Idle"}
            /\ (a = "Extracting" /\ req'[r] # req[r]) =>
                  /\ req'[r].calls["Analyst"] = req[r].calls["Analyst"] + 1
                  /\ req'[r].calls["Synthesis"] = 0
            \* synthesis retries never re-invoke extraction
            /\ (a = "Synthesizing" /\ req'[r] # req[r]) =>
                  /\ req'[r].calls["Synthesis"] = req[r].calls["Synthesis"] + 1
                  /\ req'[r].calls["Analyst"] = req[r].calls["Analyst"]
                  /\ req'[r].last["Analyst"] = req[r].last["Analyst"]
                  /\ req'[r].analysis_report = req[r].analysis_report
                  /\ req'[r].input = req[r].input

\* C16: within one invocation the controller goes Idle -> Extracting ->
\* Synthesizing -> Done, with Failed entered only from Extracting or
\* Synthesizing (with max_retries = 0 the extraction runner is entered and
\* fails within the step of the call): the synthesis stage is never invoked
\* before the extraction stage has succeeded, its input is the serialized
\* output of that invocation's successful extraction attempt, it is never
\* invoked if extraction used up its retries, and synthesis retries never
\* re-invoke extraction.
C16_StageSequencing == []C16_State /\ [][C16_Step]_vars

\* Synthesis fails once and is retried on the serialized report of the one
\* successful extraction attempt, which was itself a retry.
C16_Witness ==
    \E r \in Requests :
        LET rq == req[r] IN
        /\ max_retries = 2
        /\ ControllerState(rq) = "Synthesizing"
        /\ rq.calls["Analyst"] = 2 /\ rq.fails["Analyst"] = 1
        /\ rq.calls["Synthesis"] = 1 /\ rq.fails["Synthesis"] = 1
        /\ rq.input["Synthesis"]
              = Some([field |-> "analysis_report", text |-> "{\"snippets\": analysis-2}"])

(***************************************************************************)
(* Properties of overlapping invocations (checked under SpecConcurrent).   *)
(***************************************************************************)
\* the fingerprint of the invocation's transcript
KeyOf(rq) == "md5:" \o Formatted[rq.transcript].text

\* The entry under k, None when there is none.
EntryAt(c, k) == IF k \in DOMAIN c[1] THEN Some(c[1][k]) ELSE None

\* r finishes in this step with the report its synthesis backend call just
\* returned, after running both stages.
FinishesOwnRun(r) ==
    /\ req[r].pc = "synthesizing"
    /\ req'[r].pc = "done"
    /\ req'[r].stages = <<"Analyst", "Synthesis">>
    /\ req'[r].analysis_report # None
    /\ req'[r].last["Synthesis"][1].ok
    /\ req'[r].result = Some(req'[r].last["Synthesis"][1].value)
    /\ req'[r].result[1] \in FinalReports

C17_Step ==
    /\ \A other \in ConcurrentRequests : req'[other] = req[other] \/
          \A q \in ConcurrentRequests \ {other} : req'[q] = req[q]
    \* a store writes the finished report under the storer's own fingerprint
    \* and nothing else; no other step writes
    /\ cache' # cache =>
          \E r \in ConcurrentRequests :
              /\ FinishesOwnRun(r)
              /\ req'[r].use_cache
              /\ EntryAt(cache', KeyOf(req'[r])) = req'[r].result
              /\ \A k \in (DOMAIN cache[1] \cup DOMAIN cache'[1]) \ {KeyOf(req'[r])} :
                    EntryAt(cache', k) = EntryAt(cache, k)
    \* a finishing invocation that uses the cache stores, whatever the others do
    /\ \A r \in ConcurrentRequests :
          (FinishesOwnRun(r) /\ req'[r].use_cache)
              => EntryAt(cache', KeyOf(req'[r])) = req'[r].result
    \* the lookup reads the entry of the invocation's own fingerprint only
    /\ \A r \in ConcurrentRequests :
          (req[r].pc = "idle" /\ req'[r].pc # "idle") =>
              LET mine == EntryAt(cache, KeyOf(req'[r])) IN
              /\ cache' = cache
              /\ req'[r].hit <=> (req'[r].use_cache /\ mine # None)
              /\ req'[r].hit => (req'[r].pc = "done" /\ req'[r].result = mine)
              /\ ~req'[r].hit => (req'[r].pc = "extracting" /\ req'[r].result = None)

C17_State ==
    \* every visible value is a FinalReport, under a transcript's fingerprint
    /\ \A k \in DOMAIN cache[1] :
          /\ cache[1][k] \in FinalReports
          /\ \E t \in ConcurrentTranscripts : k = "md5:" \o Formatted[t].text
    \* the entry is the report of the invocation that finished (stored) last
    /\ (last_call # None /\ last_call[1].use_cache /\ last_call[1].result # None)
          => EntryAt(cache, KeyOf(last_call[1])) = last_call[1].result
    \* the event loop runs one HTTP request's analyze at a time
    /\ \A q1, q2 \in ConcurrentRequests :
          (req[q1].via = "http" /\ req[q2].via = "http" /\ Active(req[q1]) /\ Active(req[q2]))
              => q1 = q2

\* C17: under any interleaving of overlapping analyze invocations on one
\* cache, an invocation never changes or reads the entry of a fingerprint
\* other than its own; two invocations racing on one fingerprint may both
\* miss and both run both stages, and after both finish the entry equals the
\* report of the one that stored last; every value ever visible in the cache
\* is a complete FinalReport for its key.
C17_SharedCache == []C17_State /\ [][C17_Step]_vars

\* Two invocations of one mapping (fields in different orders) both missed,
\* both ran both stages and returned different reports; the entry is the
\* report of the one that finished last, and the entry of the other
\* fingerprint, stored before, is as it was.
C17_Witness ==
    \E r1, r2 \in ConcurrentRequests :
        /\ r1 # r2
        /\ req[r1].pc = "done" /\ req[r2].pc = "done"
        /\ req[r1].transcript = "qa" /\ req[r2].transcript = "qa-reordered"
        /\ KeyOf(req[r1]) = KeyOf(req[r2])
        /\ req[r1].use_cache /\ req[r2].use_cache
        /\ ~req[r1].hit /\ ~req[r2].hit
        /\ BackendCalls(req[r1]) = 2 /\ BackendCalls(req[r2]) = 2
        /\ req[r1].result # req[r2].result
        /\ last_call = Some(Summary(req[r2]))
        /\ EntryAt(cache, KeyOf(req[r2])) = req[r2].result
        /\ DOMAIN cache[1] = {KeyOf(req[r2]), "md5:" \o Formatted["qb"].text}

(***************************************************************************)
(* Termination (checked under SpecLive) and clear_cache (under Spec).      *)
(***************************************************************************)
\* Each stage has made at most max_retries backend calls, the running stage
\* as many as its attempt counter says, hence at most 2 * max_retries in all.
C19_Bounded ==
    \A r \in Requests :
        LET rq == req[r] IN
        /\ \A stage_name \in StageNames :
              /\ rq.calls[stage_name] <= max_retries
              /\ rq.fails[stage_name] <= rq.calls[stage_name]
        /\ Active(rq) => /\ rq.attempt = rq.calls[rq.stages[Len(rq.stages)]]
                          /\ rq.attempt < max_retries
        /\ BackendCalls(rq) <= 2 * max_retries
        /\ rq.pc \in {"idle", "extracting", "synthesizing", "done", "failed"}
        /\ rq.pc = "done" <=> rq.result # None
        /\ rq.pc = "failed" <=> rq.error # None

\* Backend calls are made one at a time: each step of a running invocation
\* is one call of the running stage.
C19_OneAtATime ==
    \A r \in Requests :
        (Active(req[r]) /\ req'[r] # req[r]) =>
            BackendCalls(req'[r]) = BackendCalls(req[r]) + 1

\* C19: assuming every backend call returns or fails, each stage makes at
\* most max_retries backend calls, strictly one after another, so one
\* analyze invocation makes at most 2 * max_retries backend calls and always
\* eventually ends in Done (report returned) or Failed (error raised).
C19_BoundedTermination ==
    /\ []C19_Bounded
    /\ [][C19_OneAtATime]_vars
    /\ \A r \in Requests : Active(req[r]) ~> Finished(req[r])

\* An invocation ended in Failed after 2 * max_retries backend calls, the
\* largest number: extraction succeeded on its last attempt, synthesis
\* failed on all of its attempts.
C19_Witness ==
    \E r \in Requests :
        LET rq == req[r] IN
        /\ max_retries = MaxRetriesBound
        /\ rq.pc = "failed"
        /\ rq.calls["Analyst"] = max_retries /\ rq.calls["Synthesis"] = max_retries
        /\ BackendCalls(rq) = 2 * max_retries

\* The call is the next one after a clear_cache that followed a call which
\* returned a report for the same mapping through the enabled cache: its
\* transcript was cached when clear_cache was called.
FollowsClear(rq) ==
    /\ enable_cache
    /\ rq.pc # "idle"
    /\ rq.before # None
    /\ rq.before[1].cleared
    /\ rq.before[1].use_cache
    /\ rq.before[1].result # None

\* The call was not answered from the cache and ran the stages again.
MissesAndRuns(rq) ==
    /\ ~rq.hit
    /\ rq.cache_at_call = Some(EmptyDict)
    /\ rq.stages # <<>> /\ rq.stages[1] = "Analyst"
    /\ rq.pc = "done" =>
          /\ rq.stages = <<"Analyst", "Synthesis">>
          /\ rq.calls["Analyst"] >= 1 /\ rq.calls["Synthesis"] >= 1
          /\ rq.result = Some(rq.last["Synthesis"][1].value)

\* After clear_cache, until the next call completes: an enabled cache is
\* empty, a disabled one is still None, and the statistics say so.
C20_AfterClear ==
    (last_call # None /\ last_call[1].cleared) =>
        IF enable_cache
        THEN /\ cache = Some(EmptyDict)
             /\ get_cache_stats = [enabled |-> TRUE, size |-> 0, keys |-> {}]
        ELSE /\ cache = None
             /\ get_cache_stats = [enabled |-> FALSE]

\* C20 as stated: after clear_cache on an enabled cache get_cache_stats
\* reports enabled = true, size 0 and no keys, and the next analyze of any
\* previously cached transcript misses and re-invokes the stages; on a cache
\* disabled at construction clear_cache is a no-op that does not fail and
\* get_cache_stats reports enabled = false.
C20_ClearThenMiss ==
    /\ C20_AfterClear
    /\ \A r \in Requests : FollowsClear(req[r]) => MissesAndRuns(req[r])

\* C20 amended: the same, where the next analyze misses and re-invokes the
\* stages when its input validation, if enabled, accepts the transcript.
C20_ClearThenValidMiss ==
    /\ C20_AfterClear
    /\ \A r \in Requests :
          (FollowsClear(req[r]) /\ PassesValidation(req[r])) => MissesAndRuns(req[r])

\* A transcript was analysed and cached, the cache was cleared, and the next
\* call of the same transcript ran both stages and got another report.
C20_Witness ==
    \E r \in Requests :
        LET rq == req[r] IN
        /\ FollowsClear(rq)
        /\ rq.before[1].transcript = rq.transcript
        /\ rq.validate_input /\ rq.use_cache
        /\ rq.pc = "done"
        /\ MissesAndRuns(rq)
        /\ rq.result # rq.before[1].result
        /\ get_cache_stats.size = 1

\* The call was made with use_cache = False on a pipeline whose cache is
\* enabled.
BypassesCache(rq) == enable_cache /\ rq.pc # "idle" /\ ~rq.use_cache

\* The cache holds exactly the entries and values it held when the call was
\* made, and the call was not answered from it.
CacheUntouched(rq) ==
    /\ cache = rq.cache_at_call
    /\ ~rq.hit

\* The call went on to the stages as a miss does: extraction is invoked
\* first, synthesis once extraction returned, and a returned report is the
\* one the synthesis backend gave this call.
RunsStages(rq) ==
    /\ rq.stages # <<>> /\ rq.stages[1] = "Analyst"
    /\ rq.input["Analyst"] # None
    /\ rq.analysis_report # None =>
          /\ rq.stages = <<"Analyst", "Synthesis">>
          /\ rq.input["Synthesis"] # None
    /\ rq.pc = "done" =>
          /\ rq.stages = <<"Analyst", "Synthesis">>
          /\ rq.calls["Analyst"] >= 1 /\ rq.calls["Synthesis"] >= 1
          /\ rq.result = Some(rq.last["Synthesis"][1].value)

\* The call got past validation and normalisation to the cache lookup of
\* line 169.
ReachedLookup(rq) == rq.formatted # None

\* C21: an analyze call made with use_cache = False on a pipeline whose
\* cache is enabled neither reads nor modifies the cache: it is never
\* answered from the cache, at the lookup it goes on to the stages even if an
\* entry for the fingerprint exists, and while it runs and after it returns
\* or fails the cache holds exactly what it held before the call.
C21_BypassIsFrame ==
    \A r \in Requests :
        BypassesCache(req[r]) =>
            /\ CacheUntouched(req[r])
            /\ ReachedLookup(req[r]) => RunsStages(req[r])

\* A call with use_cache = False returned a report of its own synthesis
\* while the cache held, and still holds, another report under the
\* fingerprint of its transcript.
C21_Witness ==
    \E r \in Requests :
        LET rq == req[r] IN
        /\ BypassesCache(rq)
        /\ rq.pc = "done"
        /\ rq.validate_input
        /\ RunsStages(rq)
        /\ _get_cache_key(rq.formatted[1]) \in DOMAIN rq.cache_at_call[1]
        /\ cache = rq.cache_at_call
        /\ cache[1][_get_cache_key(rq.formatted[1])] # rq.result[1]

\* Every entry of the cache c is in the cache d, with the same report.
Keeps(c, d) ==
    c # None =>
        /\ d # None
        /\ DOMAIN c[1] \subseteq DOMAIN d[1]
        /\ \A k \in DOMAIN c[1] : d[1][k] = c[1][k]

\* No step other than clear_cache removes a fingerprint or changes the
\* report stored under one.
C22_Step == ~clear_cache => Keeps(cache, cache')

\* A call that finds its fingerprint in the cache (use_cache = True, cache
\* enabled) is answered with the stored report and stores nothing; a call
\* with use_cache = False stores nothing; a call that stored has added its
\* fingerprint to what the cache held.
C22_State ==
    \A r \in Requests :
        LET rq == req[r] IN
        rq.pc # "idle" =>
            /\ Keeps(rq.cache_at_call, cache)
            /\ ~rq.use_cache => cache = rq.cache_at_call
            /\ (/\ rq.use_cache /\ enable_cache /\ ReachedLookup(rq)
                /\ _get_cache_key(rq.formatted[1]) \in DOMAIN rq.cache_at_call[1]) =>
                  /\ rq.hit
                  /\ rq.result = Some(rq.cache_at_call[1][_get_cache_key(rq.formatted[1])])
                  /\ cache = rq.cache_at_call
            /\ cache # rq.cache_at_call =>
                  /\ rq.pc = "done"
                  /\ DOMAIN cache[1] =
                        DOMAIN rq.cache_at_call[1] \cup {_get_cache_key(rq.formatted[1])}

\* C22: across any sequence of non-overlapping analyze calls without an
\* intervening clear_cache, the set of cached fingerprints never shrinks and
\* the report stored under a fingerprint never changes once stored: a later
\* call with use_cache = True hits and does not store, a later call with
\* use_cache = False does not store.
C22_NoEvictionNoOverwrite == []C22_State /\ [][C22_Step]_vars

\* The cache holds two fingerprints; a call with use_cache = False has run
\* both stages on a cached transcript and got another report than the stored
\* one, which is still in place.
C22_Witness ==
    \E r \in Requests :
        LET rq == req[r] IN
        /\ enable_cache /\ ~rq.use_cache
        /\ rq.pc = "done"
        /\ Cardinality(DOMAIN cache[1]) = 2
        /\ _get_cache_key(rq.formatted[1]) \in DOMAIN cache[1]
        /\ cache[1][_get_cache_key(rq.formatted[1])] # rq.result[1]
        /\ Keeps(rq.cache_at_call, cache)

\* _invoke_with_retry returned normally for the stage: `returned` holds
\* Some(x), with x = None for the Python value None and Some(v) for v.
ReturnedNormally(rq, stage_name) == rq.returned[stage_name] # None

\* What the runner returned is the output of a successful backend call it
\* made during this call.
ReturnedBackendResult(rq, stage_name) ==
    /\ rq.calls[stage_name] >= 1
    /\ rq.last[stage_name] # None
    /\ rq.last[stage_name][1].ok
    /\ rq.returned[stage_name] = Some(Some(rq.last[stage_name][1].value))

\* C23 as stated: for every configured max_retries, including 0, a call of
\* the stage runner that returns normally returns the output of a successful
\* backend call made during that same call; it never returns normally
\* without having obtained a result from the backend.
C23_RunnerReturnsBackendResult ==
    \A r \in Requests : \A stage_name \in StageNames :
        ReturnedNormally(req[r], stage_name) => ReturnedBackendResult(req[r], stage_name)

====
